---- MODULE Spec2Model ----
(***************************************************************************)
(* CheminformaticsStack and MegamolbartStack: the two CDK stacks of the    *)
(* cheminformatics quickstart.  Constructing a stack runs its _create_*    *)
(* methods in a fixed order; each method reads context values with         *)
(* self.node.try_get_context and declares resources.  The declared         *)
(* resources (the template) then parameterise what the orchestrator does   *)
(* at run time: container start order, task-count scaling, step scaling of *)
(* the GPU auto-scaling group and health checks.                           *)
(***************************************************************************)
EXTENDS Integers, Sequences, FiniteSets, TLC

VARIABLES
    stack,          \* which stack class is being constructed
    context,        \* the app's context: key -> value (None when absent)
    pc,             \* index of the next _create_* call of the constructor
    status,         \* "constructing" | "synthesized" | "failed"
    self,           \* the stack object's attributes: name -> construct id
    declared,       \* the constructs declared so far, in declaration order
    vpc,            \* the VPC construct (ec2.Vpc or Vpc.from_lookup)
    cluster,        \* the ecs.Cluster construct
    asg,            \* the autoscaling.AutoScalingGroup and its capacity provider
    efs,            \* the efs.FileSystem construct
    services,       \* service id -> the ECS service and its task definition
    rules,          \* ingress rules added with connections.allow_from
    run             \* the deployed stack at run time (see the run-time part)

vars == <<stack, context, pc, status, self, declared, vpc, cluster, asg, efs,
          services, rules, run>>

template == <<declared, vpc, cluster, asg, efs, services, rules>>

-----------------------------------------------------------------------------
(* Context values.                                                         *)

\* try_get_context returns None for a key the context does not hold.
None == "<None>"

\* A value of the wrong shape for its key (a typo, a wrong type).
Invalid == "<invalid>"

ContextKeys ==
    {"create_new_vpc", "cidr_block", "number_of_azs", "existing_vpc_name",
     "instance_type", "ec2_volume_size", "megamolbart_container",
     "megamolbart_model_url", "cheminformatics_container"}

\* The well-formed value of each key, as the unit test's context gives it.
ValidValue(k) ==
    CASE k = "create_new_vpc" -> "True"
      [] k = "cidr_block" -> "10.0.0.0/24"
      [] k = "number_of_azs" -> "2"
      [] k = "existing_vpc_name" -> "SomeVpcName"
      [] k = "instance_type" -> "p3.2xlarge"
      [] k = "ec2_volume_size" -> "100"
      [] k = "megamolbart_container" -> "nvcr.io/nvidia/clara/megamolbart:0.1.2"
      [] k = "megamolbart_model_url" -> "https://api.ngc.nvidia.com/v2/models/nvidia/clara/megamolbart/versions/0.1/zip"
      [] k = "cheminformatics_container" -> "public.ecr.aws/b9g4r0v3/cheminformatics_demo:0.1.2"

\* The values a key may hold in a context: create_new_vpc is free text that
\* the code compares with "True"; every other key is well-formed, absent or
\* malformed.
ContextValues(k) ==
    IF k = "create_new_vpc"
    THEN {"True", "False", "true", None}
    ELSE {ValidValue(k), None, Invalid}

WellFormed(k, v) ==
    IF k = "create_new_vpc" THEN v \in {"True", "False"} ELSE v = ValidValue(k)

\* Every context: a value of create_new_vpc, and for each other key whether
\* it is well-formed, absent or malformed.
Forms == {"valid", "absent", "malformed"}

Form(k, f) ==
    CASE f = "valid" -> ValidValue(k)
      [] f = "absent" -> None
      [] f = "malformed" -> Invalid

Contexts ==
    {[k \in ContextKeys |->
        IF k = "create_new_vpc" THEN flag ELSE Form(k, m[k])] :
            flag \in ContextValues("create_new_vpc"),
            m \in [ContextKeys \ {"create_new_vpc"} -> Forms]}

try_get_context(k) == context[k]

\* str(value) inside an f-string: None is formatted as the text "None",
\* every string as itself.  Formatting never raises.
fstring(v) == IF v = None THEN "None" ELSE v

-----------------------------------------------------------------------------
(* The stack object.                                                       *)

StackClasses == {"Cheminformatics", "Megamolbart"}

identifier == stack

volume_name ==
    IF stack = "Cheminformatics" THEN "cheminformatics-data-volume"
    ELSE "megamolbart-data-volume"

Attributes ==
    {"vpc", "cluster", "auto_scaling_group", "capacity_provider",
     "efs_filesystem", "efs_volume_configuration", "cuchem"}

\* An attribute no assignment has created yet.
Unassigned == "<unassigned>"

\* CheminformaticsStack.__init__ assigns None to six attributes (not to
\* capacity_provider); MegamolbartStack.__init__ assigns none before its
\* first _create_* call.
InitialAttributes(s) ==
    [a \in Attributes |->
        IF s = "Cheminformatics" /\ a # "capacity_provider" THEN None ELSE Unassigned]

\* A variant that makes the cluster before the GPU capacity, as
\* MegamolbartStack does.
CheminformaticsStack_cluster_first ==
    <<"_create_vpc", "_create_ecs_cluster", "_create_gpu_capacity",
      "_create_efs_volume", "_create_cuchem_service", "_create_megamolbart_service">>

\* A variant that makes the megamolbart service before the cuchem service.
CheminformaticsStack_megamolbart_first ==
    <<"_create_vpc", "_create_gpu_capacity", "_create_ecs_cluster",
      "_create_efs_volume", "_create_megamolbart_service", "_create_cuchem_service">>

\* The context keys a class reads somewhere in its methods.
Consumed(s) ==
    IF s = "Cheminformatics" THEN ContextKeys
    ELSE ContextKeys \ {"megamolbart_model_url", "cheminformatics_container"}

\* The order of the _create_* calls.
CheminformaticsStack_create_resources ==
    <<"_create_vpc", "_create_gpu_capacity", "_create_ecs_cluster",
      "_create_efs_volume", "_create_cuchem_service", "_create_megamolbart_service">>

MegamolbartStack_init ==
    <<"_create_vpc", "_create_ecs_cluster", "_create_gpu_capacity",
      "_create_efs_volume", "_create_megamolbart_service">>

Steps ==
    IF stack = "Cheminformatics" THEN CheminformaticsStack_create_resources
    ELSE MegamolbartStack_init

\* A variant that takes any value that is present as a yes.
create_new_vpc_truthy == try_get_context("create_new_vpc") # None

\* The test _create_vpc branches on: the context value equals the text "True".
create_new_vpc_selected == try_get_context("create_new_vpc") = "True"

\* A variant in which _create_vpc also has create_new_vpc validated.
Handed_with_flag(method) ==
    CASE method = "_create_vpc" ->
            IF create_new_vpc_selected
            THEN {"create_new_vpc", "cidr_block", "number_of_azs"}
            ELSE {"create_new_vpc", "existing_vpc_name"}
      [] method = "_create_gpu_capacity" -> {"instance_type", "ec2_volume_size"}
      [] method = "_create_cuchem_service" -> {"cheminformatics_container"}
      [] method = "_create_megamolbart_service" -> {"megamolbart_container"}
      [] OTHER -> {}

\* The context keys whose values a method hands to a framework construct on
\* the path it takes.  instance_type in the service methods and
\* megamolbart_model_url are only formatted into text (fstring), which
\* accepts any value, None included.
Handed(method) ==
    CASE method = "_create_vpc" ->
            IF create_new_vpc_selected
            THEN {"cidr_block", "number_of_azs"}
            ELSE {"existing_vpc_name"}
      [] method = "_create_gpu_capacity" -> {"instance_type", "ec2_volume_size"}
      [] method = "_create_cuchem_service" -> {"cheminformatics_container"}
      [] method = "_create_megamolbart_service" -> {"megamolbart_container"}
      [] OTHER -> {}

\* The framework's configuration validation: a construct accepts the values
\* it is handed when each is well-formed, and raises otherwise.
FrameworkAccepts(method) ==
    \A k \in Handed(method) : WellFormed(k, try_get_context(k))

\* The constructor is about to call `method`, and the constructs the method
\* makes accept their arguments.
At(method) ==
    /\ status = "constructing"
    /\ pc <= Len(Steps)
    /\ Steps[pc] = method
    /\ FrameworkAccepts(method)

\* Return from a _create_* method: the constructor goes on to the next call,
\* and after the last one the stack is complete and its template can be
\* synthesized.
Return ==
    /\ pc' = pc + 1
    /\ status' = IF pc + 1 > Len(Steps) THEN "synthesized" ELSE "constructing"

Absent == [declared |-> FALSE]

Declare(kind, id) == declared' = Append(declared, [kind |-> kind, id |-> id])


\* f"{self.identifier}-..." : the construct id under either class.
Id(chem, mega) == IF stack = "Cheminformatics" THEN chem ELSE mega

-----------------------------------------------------------------------------
(* Text that the claims take apart is kept as the sequence of its          *)
(* characters.                                                             *)

\* "megamolbart"
Chars_megamolbart == <<"m","e","g","a","m","o","l","b","a","r","t">>

\* "cuchem"
Chars_cuchem == <<"c","u","c","h","e","m">>

\* "service.local"
Chars_service_local == <<"s","e","r","v","i","c","e",".","l","o","c","a","l">>

\* "megamolbart.service.local:50051"
Chars_megamolbart_address ==
    <<"m","e","g","a","m","o","l","b","a","r","t",".",
      "s","e","r","v","i","c","e",".","l","o","c","a","l",":","5","0","0","5","1">>

\* "http://localhost:8888/api"
Chars_health_url ==
    <<"h","t","t","p",":","/","/","l","o","c","a","l","h","o","s","t",":",
      "8","8","8","8","/","a","p","i">>

\* "/api" and "/", the target group's health check path and its default
Chars_api == <<"/","a","p","i">>

Chars_root == <<"/">>

-----------------------------------------------------------------------------
(* _create_vpc: the same code in both classes.                             *)

_create_vpc ==
    /\ At("_create_vpc")
    /\ IF create_new_vpc_selected
       THEN \* Create a new vpc
            /\ vpc' = [declared |-> TRUE, origin |-> "new",
                       id |-> Id("Cheminformatics-VPC", "Megamolbart-VPC"),
                       cidr |-> try_get_context("cidr_block"),
                       max_azs |-> try_get_context("number_of_azs"),
                       vpc_name |-> None]
            /\ Declare("VPC", Id("Cheminformatics-VPC", "Megamolbart-VPC"))
            /\ self' = [self EXCEPT !["vpc"] = Id("Cheminformatics-VPC", "Megamolbart-VPC")]
       ELSE \* Use existing vpc
            /\ vpc' = [declared |-> TRUE, origin |-> "lookup", id |-> "VPC",
                       cidr |-> None, max_azs |-> None,
                       vpc_name |-> try_get_context("existing_vpc_name")]
            /\ Declare("VPC-lookup", "VPC")
            /\ self' = [self EXCEPT !["vpc"] = "VPC"]
    /\ Return
    /\ UNCHANGED <<stack, context, cluster, asg, efs, services, rules, run>>

-----------------------------------------------------------------------------
(* _create_gpu_capacity.                                                   *)

\* The auto-scaling group both classes declare: min_capacity=1,
\* max_capacity=2, the GPU machine image and the context's instance type and
\* volume size.
AutoScalingGroup(user_data, scaling_steps, inline_policies, managed_scaling) ==
    [declared |-> TRUE,
     id |-> Id("Cheminformatics-GPU-ASG", "Megamolbart-GPU-ASG"),
     vpc |-> self["vpc"],
     instance_type |-> try_get_context("instance_type"),
     hardware_type |-> "GPU",
     user_data |-> user_data,
     min_capacity |-> 1,
     max_capacity |-> 2,
     volume_size |-> try_get_context("ec2_volume_size"),
     scaling_steps |-> scaling_steps,
     inline_policies |-> inline_policies,
     capacity_provider |-> Id("Cheminformatics-GPU-AsgCapacityProvider",
                              "Megamolbart-GPU-AsgCapacityProvider"),
     enable_managed_termination_protection |-> FALSE,
     enable_managed_scaling |-> managed_scaling]

\* CheminformaticsStack: the group and its capacity provider (managed scaling
\* left at the framework's default, enabled); the provider is kept in
\* self.capacity_provider for _create_ecs_cluster.
Cheminformatics_create_gpu_capacity ==
    /\ stack = "Cheminformatics"
    /\ At("_create_gpu_capacity")
    /\ asg' = AutoScalingGroup("default-runtime nvidia", <<>>, {}, TRUE)
    /\ declared' = declared \o
          <<[kind |-> "AutoScalingGroup", id |-> "Cheminformatics-GPU-ASG"],
            [kind |-> "CapacityProvider", id |-> "Cheminformatics-GPU-AsgCapacityProvider"]>>
    /\ self' = [self EXCEPT !["capacity_provider"] = "Cheminformatics-GPU-AsgCapacityProvider"]
    /\ Return
    /\ UNCHANGED <<stack, context, vpc, cluster, efs, services, rules, run>>

\* The scaling_steps of MegamolbartStack's StepScalingPolicy, as written: a
\* bound that is not given is the empty set.
ScalingSteps ==
    <<[lower |-> {}, upper |-> {15}, change |-> -1],
      [lower |-> {30}, upper |-> {}, change |-> 1],
      [lower |-> {50}, upper |-> {}, change |-> 1]>>

\* MegamolbartStack: the group, a step-scaling policy on the cluster's CPU
\* utilization, the cloudwatch-put inline policy, and a capacity provider
\* with managed scaling disabled that is added to self.cluster.
Megamolbart_create_gpu_capacity ==
    /\ stack = "Megamolbart"
    /\ At("_create_gpu_capacity")
    /\ asg' = AutoScalingGroup("default-runtime nvidia; gpumon.py", ScalingSteps,
                               {"cloudwatch:PutMetricData"}, FALSE)
    /\ declared' = declared \o
          <<[kind |-> "AutoScalingGroup", id |-> "Megamolbart-GPU-ASG"],
            [kind |-> "StepScalingPolicy", id |-> "StepScalingPolicy"],
            [kind |-> "Policy", id |-> "cloudwatch-put"],
            [kind |-> "CapacityProvider", id |-> "Megamolbart-GPU-AsgCapacityProvider"]>>
    /\ cluster' = [cluster EXCEPT !.capacity_providers =
                      @ \cup {"Megamolbart-GPU-AsgCapacityProvider"}]
    /\ Return
    /\ UNCHANGED <<stack, context, self, vpc, efs, services, rules, run>>

-----------------------------------------------------------------------------
(* _create_ecs_cluster.                                                    *)

\* CheminformaticsStack: the cluster with container insights, the default
\* cloud-map namespace service.local and the capacity provider made earlier.
Cheminformatics_Cluster ==
    [declared |-> TRUE, id |-> "Cheminformatics-Cluster",
     vpc |-> self["vpc"],
     container_insights |-> TRUE,
     default_cloud_map_namespace |-> Chars_service_local,
     capacity_providers |-> {self["capacity_provider"]}]

Cheminformatics_create_ecs_cluster ==
    /\ stack = "Cheminformatics"
    /\ At("_create_ecs_cluster")
    /\ cluster' = Cheminformatics_Cluster
    /\ Declare("Cluster", "Cheminformatics-Cluster")
    /\ self' = [self EXCEPT !["cluster"] = "Cheminformatics-Cluster"]
    /\ Return
    /\ UNCHANGED <<stack, context, vpc, asg, efs, services, rules, run>>

\* A variant that leaves container_insights at the framework's default.
Megamolbart_Cluster_default_insights ==
    [declared |-> TRUE, id |-> "Megamolbart-Cluster",
     vpc |-> self["vpc"],
     container_insights |-> FALSE,
     default_cloud_map_namespace |-> <<>>,
     capacity_providers |-> {}]

\* MegamolbartStack: the cluster with container insights; no namespace.
Megamolbart_Cluster ==
    [declared |-> TRUE, id |-> "Megamolbart-Cluster",
     vpc |-> self["vpc"],
     container_insights |-> TRUE,
     default_cloud_map_namespace |-> <<>>,
     capacity_providers |-> {}]

Megamolbart_create_ecs_cluster ==
    /\ stack = "Megamolbart"
    /\ At("_create_ecs_cluster")
    /\ cluster' = Megamolbart_Cluster
    /\ Declare("Cluster", "Megamolbart-Cluster")
    /\ self' = [self EXCEPT !["cluster"] = "Megamolbart-Cluster"]
    /\ Return
    /\ UNCHANGED <<stack, context, vpc, asg, efs, services, rules, run>>

\* The ClusterSettings of the AWS::ECS::Cluster resource that synthesis
\* writes for a cluster: container_insights=True becomes the setting
\* containerInsights = enabled.
ClusterSettings(c) ==
    IF c.container_insights
    THEN {[Name |-> "containerInsights", Value |-> "enabled"]}
    ELSE {}

-----------------------------------------------------------------------------
(* _create_efs_volume: the same code in both classes.                      *)

_create_efs_volume ==
    /\ At("_create_efs_volume")
    /\ efs' = [declared |-> TRUE,
               id |-> Id("Cheminformatics-EFSFilesystem", "Megamolbart-EFSFilesystem"),
               vpc |-> self["vpc"],
               removal_policy |-> "DESTROY"]
    /\ Declare("FileSystem", Id("Cheminformatics-EFSFilesystem", "Megamolbart-EFSFilesystem"))
    /\ self' = [self EXCEPT
                  !["efs_filesystem"] = Id("Cheminformatics-EFSFilesystem",
                                           "Megamolbart-EFSFilesystem"),
                  !["efs_volume_configuration"] = "EfsVolumeConfiguration"]
    /\ Return
    /\ UNCHANGED <<stack, context, vpc, cluster, asg, services, rules, run>>

-----------------------------------------------------------------------------
(* Task definitions, containers and services.                              *)

\* task_definition.add_container(...): what the claims read of a container.
\* essential defaults to True, the other collections to empty.
Container(name, image, essential, command, environment, port_mappings, health_check, mount_points) ==
    [name |-> name, image |-> image, essential |-> essential,
     command |-> command, environment |-> environment,
     port_mappings |-> port_mappings, health_check |-> health_check,
     mount_points |-> mount_points, depends_on |-> {}]

\* container.add_container_dependencies(ContainerDependency(container, condition))
add_container_dependencies(c, on, condition) ==
    [c EXCEPT !.depends_on = @ \cup {[container |-> on.name, condition |-> condition]}]

\* ecs.Ec2TaskDefinition with the EFS volume added; the instance type is
\* formatted into the placement constraint.
Ec2TaskDefinition(id, containers) ==
    [id |-> id, network_mode |-> "AWS_VPC",
     placement_constraint |-> <<"attribute:ecs.instance-type == ",
                                fstring(try_get_context("instance_type"))>>,
     volumes |-> {[name |-> volume_name,
                   efs_volume_configuration |-> self["efs_volume_configuration"]]},
     containers |-> containers]

\* A variant with the upper bound and the target exchanged.
CPUScaling_target_as_max(min_capacity, max_capacity, target) ==
    [min_capacity |-> min_capacity, max_capacity |-> target,
     policies |-> {[id |-> "CPUScaling",
                    metric |-> "CPUUtilization",
                    target_utilization_percent |-> max_capacity,
                    scale_in_cooldown |-> 60,
                    scale_out_cooldown |-> 60]}]

\* auto_scale_task_count(min_capacity, max_capacity) and
\* scale_on_cpu_utilization("CPUScaling", target, cooldowns in seconds).
CPUScaling(min_capacity, max_capacity, target) ==
    [min_capacity |-> min_capacity, max_capacity |-> max_capacity,
     policies |-> {[id |-> "CPUScaling",
                    metric |-> "CPUUtilization",
                    target_utilization_percent |-> target,
                    scale_in_cooldown |-> 60,
                    scale_out_cooldown |-> 60]}]

\* connections.allow_from(source, port): one ingress rule on the target.
Ingress(target, source, from_port, to_port) ==
    [target |-> target, source |-> source, protocol |-> "tcp",
     from_port |-> from_port, to_port |-> to_port]

\* ec2.Port.tcp(2049) and ec2.Port.all_tcp()
allow_from_tcp(target, source, port) == Ingress(target, source, port, port)

\* A variant with the two ends exchanged.
allow_from_all_tcp_reversed(target, source) == Ingress(source, target, 0, 65535)

allow_from_all_tcp(target, source) == Ingress(target, source, 0, 65535)

-----------------------------------------------------------------------------
(* CheminformaticsStack._create_cuchem_service                             *)

cuchem_init_container ==
    Container("cuchem-init", try_get_context("cheminformatics_container"), FALSE,
              <<"source ./env.sh && dbSetup /data">>, {}, {}, {}, {"/data"})

\* A variant whose dependency waits only for the init container to start.
cuchem_container_start ==
    add_container_dependencies(
        Container("cuchem", try_get_context("cheminformatics_container"), TRUE,
                  <<>>, {<<"Megamolbart", Chars_megamolbart_address>>}, {5000},
                  {}, {"/data"}),
        cuchem_init_container, "START")

cuchem_container ==
    add_container_dependencies(
        Container("cuchem", try_get_context("cheminformatics_container"), TRUE,
                  <<>>, {<<"Megamolbart", Chars_megamolbart_address>>}, {5000},
                  {}, {"/data"}),
        cuchem_init_container, "COMPLETE")

\* The load-balanced cuchem service, its scaling policy and the EFS rule;
\* the service is kept in self.cuchem.
_create_cuchem_service ==
    /\ stack = "Cheminformatics"
    /\ At("_create_cuchem_service")
    /\ services' = [n \in DOMAIN services \cup {"cuchem"} |->
          IF n = "cuchem"
          THEN [id |-> "Cheminformatics-Cuchem-Service",
                cluster |-> self["cluster"],
                task_definition |->
                    Ec2TaskDefinition("Cuchem-Task",
                                      <<cuchem_init_container, cuchem_container>>),
                cloud_map_name |-> Chars_cuchem,
                cloud_map_container |-> "cuchem",
                load_balanced |-> TRUE,
                listener_port |-> {80},
                health_check_path |-> Chars_root,
                desired_count |-> {},
                scaling |-> CPUScaling(1, 4, 50)]
          ELSE services[n]]
    /\ declared' = declared \o
          <<[kind |-> "TaskDefinition", id |-> "Cuchem-Task"],
            [kind |-> "Service", id |-> "Cheminformatics-Cuchem-Service"]>>
    /\ self' = [self EXCEPT !["cuchem"] = "cuchem"]
    /\ rules' = rules \cup {allow_from_tcp(self["efs_filesystem"], "cuchem", 2049)}
    /\ Return
    /\ UNCHANGED <<stack, context, vpc, cluster, asg, efs, run>>

-----------------------------------------------------------------------------
(* CheminformaticsStack._create_megamolbart_service                        *)

megamolbart_init_container ==
    Container("megamolbart-init", "ubuntu:22.04", FALSE,
              <<"apt-get update && apt-get install wget unzip -y && wget --content-disposition ",
                fstring(try_get_context("megamolbart_model_url")),
                " -nc -O megamolbart_0.1.zip && unzip megamolbart_0.1.zip">>,
              {}, {}, {}, {"/models"})

\* A variant that maps the port of the standalone stack's container.
megamolbart_container_port_8888 ==
    add_container_dependencies(
        Container("megamolbart", try_get_context("megamolbart_container"), TRUE,
                  <<>>, {}, {8888}, {}, {"/data", "/models"}),
        megamolbart_init_container, "COMPLETE")

\* A variant whose dependency asks for the init container's success.
megamolbart_container_success ==
    add_container_dependencies(
        Container("megamolbart", try_get_context("megamolbart_container"), TRUE,
                  <<>>, {}, {50051}, {}, {"/data", "/models"}),
        megamolbart_init_container, "SUCCESS")

megamolbart_container ==
    add_container_dependencies(
        Container("megamolbart", try_get_context("megamolbart_container"), TRUE,
                  <<>>, {}, {50051}, {}, {"/data", "/models"}),
        megamolbart_init_container, "COMPLETE")

\* The internal megamolbart service, registered in cloud map, its scaling
\* policy, the EFS rule and the rule admitting the cuchem service.
Cheminformatics_create_megamolbart_service ==
    /\ stack = "Cheminformatics"
    /\ At("_create_megamolbart_service")
    /\ services' = [n \in DOMAIN services \cup {"megamolbart"} |->
          IF n = "megamolbart"
          THEN [id |-> "megamolbart-service",
                cluster |-> self["cluster"],
                task_definition |->
                    Ec2TaskDefinition("Megamolbart-Task",
                                      <<megamolbart_init_container, megamolbart_container>>),
                cloud_map_name |-> Chars_megamolbart,
                cloud_map_container |-> "megamolbart",
                load_balanced |-> FALSE,
                listener_port |-> {},
                health_check_path |-> <<>>,
                desired_count |-> {},
                scaling |-> CPUScaling(1, 4, 50)]
          ELSE services[n]]
    /\ declared' = declared \o
          <<[kind |-> "TaskDefinition", id |-> "Megamolbart-Task"],
            [kind |-> "Service", id |-> "megamolbart-service"]>>
    /\ rules' = rules \cup
          {allow_from_tcp(self["efs_filesystem"], "megamolbart", 2049),
           allow_from_all_tcp("megamolbart", self["cuchem"])}
    /\ Return
    /\ UNCHANGED <<stack, context, self, vpc, cluster, asg, efs, run>>

-----------------------------------------------------------------------------
(* MegamolbartStack._create_megamolbart_service                            *)

\* The single container: port 8888 and the curl health check on /api.
standalone_megamolbart_container ==
    Container("megamolbart", try_get_context("megamolbart_container"), TRUE,
              <<>>, {}, {8888},
              {[command |-> <<"CMD-SHELL", "curl", "-f", Chars_health_url,
                              "||", "exit", "1">>]},
              {"/data", "/result"})

\* A variant that leaves the target group's health check as it was.
configure_health_check_skipped(service, path) == service

\* megamolbart.target_group.configure_health_check(path=...)
configure_health_check(service, path) ==
    [service EXCEPT !.health_check_path = path]

\* The load-balanced service with desired_count=3, the target group's
\* health check path /api, its scaling policy and the EFS rule.
Megamolbart_create_megamolbart_service ==
    /\ stack = "Megamolbart"
    /\ At("_create_megamolbart_service")
    /\ services' = [n \in DOMAIN services \cup {"megamolbart"} |->
          IF n = "megamolbart"
          THEN configure_health_check(
                  [id |-> "Megamolbart-Megamolbart-Service",
                   cluster |-> self["cluster"],
                   task_definition |->
                       Ec2TaskDefinition("Megamolbart-Task",
                                         <<standalone_megamolbart_container>>),
                   cloud_map_name |-> <<>>,
                   cloud_map_container |-> None,
                   load_balanced |-> TRUE,
                   listener_port |-> {},
                   health_check_path |-> Chars_root,
                   desired_count |-> {3},
                   scaling |-> CPUScaling(1, 10, 30)],
                  Chars_api)
          ELSE services[n]]
    /\ declared' = declared \o
          <<[kind |-> "TaskDefinition", id |-> "Megamolbart-Task"],
            [kind |-> "Service", id |-> "Megamolbart-Megamolbart-Service"]>>
    /\ rules' = rules \cup {allow_from_tcp(self["efs_filesystem"], "megamolbart", 2049)}
    /\ Return
    /\ UNCHANGED <<stack, context, self, vpc, cluster, asg, efs, run>>

-----------------------------------------------------------------------------
(* Construction as a whole.                                                *)

\* A construct rejects a value the current method hands it: the exception
\* leaves the constructor, and no template is produced.  The stack code has
\* no except clause and raises nothing itself.
FrameworkError ==
    /\ status = "constructing"
    /\ pc <= Len(Steps)
    /\ ~FrameworkAccepts(Steps[pc])
    /\ status' = "failed"
    /\ UNCHANGED <<stack, context, pc, self, declared, vpc, cluster, asg, efs,
                   services, rules, run>>

\* Before deployment nothing runs.
NotDeployed ==
    [deployed |-> FALSE, capacity |-> 0, scaled_by |-> "none",
     tasks |-> [n \in {} |-> 0]]

InitWith(contexts) ==
    /\ stack \in StackClasses
    /\ context \in contexts
    /\ pc = 1
    /\ status = "constructing"
    /\ self = InitialAttributes(stack)
    /\ declared = <<>>
    /\ vpc = Absent
    /\ cluster = Absent
    /\ asg = Absent
    /\ efs = Absent
    /\ services = [n \in {} |-> 0]
    /\ rules = {}
    /\ run = NotDeployed

Init == InitWith(Contexts)

Construct ==
    \/ _create_vpc
    \/ Cheminformatics_create_gpu_capacity
    \/ Megamolbart_create_gpu_capacity
    \/ Cheminformatics_create_ecs_cluster
    \/ Megamolbart_create_ecs_cluster
    \/ _create_efs_volume
    \/ _create_cuchem_service
    \/ Cheminformatics_create_megamolbart_service
    \/ Megamolbart_create_megamolbart_service
    \/ FrameworkError

-----------------------------------------------------------------------------
(* Run time: what the orchestrator does with the synthesized template.     *)
(* One task of each service is followed through its containers; the        *)
(* service's task count and the auto-scaling group's capacity are counted. *)
(* Cooldowns only delay scaling activities, so leaving time out admits     *)
(* every sequence of activities that can happen with them.                 *)

\* Up to how many tasks one target-tracking activity adds or removes.
MaxAdjustment == 2

\* The largest CPU utilization, in percent.
MaxUtilization == 100

\* The utilizations the scaling activities are tried with: both ends and
\* each side of every threshold the stacks declare.
UtilizationSamples == {0, 14, 15, 16, 29, 30, 31, 49, 50, 51, MaxUtilization}

Min(a, b) == IF a <= b THEN a ELSE b

Max(a, b) == IF a >= b THEN a ELSE b

Clamp(x, lo, hi) == Max(lo, Min(x, hi))

ContainersOf(n) ==
    {services[n].task_definition.containers[i] :
        i \in 1..Len(services[n].task_definition.containers)}

\* The task definition's default container: the first essential one added.
DefaultContainer(n) ==
    LET cs == services[n].task_definition.containers
        i == CHOOSE i \in 1..Len(cs) :
                /\ cs[i].essential
                /\ \A j \in 1..(i - 1) : ~cs[j].essential
    IN  cs[i]

Exited == {"EXIT_0", "EXIT_1"}

\* A container dependency is satisfied: COMPLETE when the other container
\* has exited with any code, SUCCESS only with code 0, START once started.
Satisfied(d, state) ==
    CASE d.condition = "COMPLETE" -> state[d.container] \in Exited
      [] d.condition = "SUCCESS" -> state[d.container] = "EXIT_0"
      [] d.condition = "START" -> state[d.container] # "PENDING"

\* The endpoints a container may answer on, of those anything probes: its
\* mapped ports, with the probed paths and the root path.
Endpoints(n, c) ==
    IF services[n].load_balanced \/ c.health_check # {}
    THEN {<<p, path>> : p \in c.port_mappings, path \in {Chars_root, Chars_api}}
    ELSE {}

\* A task as the service scheduler launches it: every container pending.
NewTask(n, count) ==
    [count |-> count,
     status |-> "RUNNING",
     state |-> [name \in {c.name : c \in ContainersOf(n)} |-> "PENDING"],
     serving |-> {},
     container_health |-> "UNKNOWN",
     target_health |-> "initial"]

\* The service's first task count: desired_count when given, else the
\* lower bound of its scaling.
InitialCount(n) ==
    IF services[n].desired_count = {} THEN services[n].scaling.min_capacity
    ELSE CHOOSE d \in services[n].desired_count : TRUE

\* The template is deployed: the group starts at its minimum capacity and
\* every service launches its tasks.
Deploy ==
    /\ status = "synthesized"
    /\ ~run.deployed
    /\ run' = [deployed |-> TRUE,
               capacity |-> asg.min_capacity,
               scaled_by |-> "none",
               tasks |-> [n \in DOMAIN services |-> NewTask(n, InitialCount(n))]]
    /\ UNCHANGED <<stack, context, pc, status, self, template>>

\* The agent starts a pending container once its dependencies are
\* satisfied; the application then answers on some of its endpoints.
StartContainer ==
    /\ run.deployed
    /\ \E n \in DOMAIN run.tasks : \E c \in ContainersOf(n) :
         \E answers \in SUBSET Endpoints(n, c) :
            /\ run.tasks[n].status = "RUNNING"
            /\ run.tasks[n].state[c.name] = "PENDING"
            /\ \A d \in c.depends_on : Satisfied(d, run.tasks[n].state)
            /\ run' = [run EXCEPT !.tasks[n].state[c.name] = "RUNNING",
                                  !.tasks[n].serving = @ \cup answers]
    /\ UNCHANGED <<stack, context, pc, status, self, template>>

\* A running container exits with code 0 or 1.  The exit of an essential
\* container stops the task; the exit of a non-essential one does not.
ContainerExits ==
    /\ run.deployed
    /\ \E n \in DOMAIN run.tasks : \E c \in ContainersOf(n) :
         \E code \in {"EXIT_0", "EXIT_1"} :
            /\ run.tasks[n].status = "RUNNING"
            /\ run.tasks[n].state[c.name] = "RUNNING"
            /\ run' = [run EXCEPT
                         !.tasks[n].state[c.name] = code,
                         !.tasks[n].status = IF c.essential THEN "STOPPED" ELSE @]
    /\ UNCHANGED <<stack, context, pc, status, self, template>>

\* The service scheduler replaces a stopped task with a new one.
ReplaceTask ==
    /\ run.deployed
    /\ \E n \in DOMAIN run.tasks :
            /\ run.tasks[n].status = "STOPPED"
            /\ run' = [run EXCEPT !.tasks[n] = NewTask(n, run.tasks[n].count)]
    /\ UNCHANGED <<stack, context, pc, status, self, template>>

\* A target-tracking activity of a service's CPUScaling policy: with the
\* utilization above the target it adds tasks, below it removes tasks,
\* within the bounds given to auto_scale_task_count.
TargetTracking ==
    /\ run.deployed
    /\ \E n \in DOMAIN run.tasks : \E p \in services[n].scaling.policies :
         \E k \in 1..MaxAdjustment :
            \/ /\ {u \in UtilizationSamples : u > p.target_utilization_percent} # {}
               /\ run' = [run EXCEPT !.tasks[n].count =
                            Min(@ + k, services[n].scaling.max_capacity)]
            \/ /\ {u \in UtilizationSamples : u < p.target_utilization_percent} # {}
               /\ run' = [run EXCEPT !.tasks[n].count =
                            Max(@ - k, services[n].scaling.min_capacity)]
    /\ UNCHANGED <<stack, context, pc, status, self, template>>

-----------------------------------------------------------------------------
(* Scaling of the GPU auto-scaling group.                                  *)

\* The interval of step i with the bounds its neighbours imply: a missing
\* lower bound is the previous step's upper bound (0 for the first step), a
\* missing upper bound is the next step's lower bound (none for the last).
StepLower(steps, i) ==
    IF steps[i].lower # {} THEN CHOOSE b \in steps[i].lower : TRUE
    ELSE IF i > 1 /\ steps[i - 1].upper # {}
         THEN CHOOSE b \in steps[i - 1].upper : TRUE
         ELSE 0

StepUpper(steps, i) ==
    IF steps[i].upper # {} THEN steps[i].upper
    ELSE IF i < Len(steps) THEN steps[i + 1].lower
         ELSE {}

\* A variant that takes each step by the bounds written on it alone.
StepApplies_as_written(steps, i, u) ==
    /\ \A b \in steps[i].lower : b <= u
    /\ \A b \in steps[i].upper : u < b

\* Step i applies at utilization u: lower bound included, upper excluded.
StepApplies(steps, i, u) ==
    /\ StepLower(steps, i) <= u
    /\ \A b \in StepUpper(steps, i) : u < b

RECURSIVE SumChanges(_, _, _)
SumChanges(steps, i, u) ==
    IF i > Len(steps) THEN 0
    ELSE (IF StepApplies(steps, i, u) THEN steps[i].change ELSE 0)
         + SumChanges(steps, i + 1, u)

\* CHANGE_IN_CAPACITY: the change of the step that applies at u, and no
\* change where none applies.
StepAdjustment(steps, u) == SumChanges(steps, 1, u)

\* The step-scaling policy acts on the cluster's CPU utilization; the group
\* keeps its capacity within min_capacity and max_capacity.
StepScaling ==
    /\ run.deployed
    /\ asg.scaling_steps # <<>>
    /\ \E u \in UtilizationSamples :
          run' = [run EXCEPT
                    !.capacity = Clamp(@ + StepAdjustment(asg.scaling_steps, u),
                                       asg.min_capacity, asg.max_capacity),
                    !.scaled_by = "StepScalingPolicy"]
    /\ UNCHANGED <<stack, context, pc, status, self, template>>

\* The capacity provider's managed scaling, when enabled, sets the group's
\* capacity to what the tasks need, within the group's bounds.
ManagedScaling ==
    /\ run.deployed
    /\ asg.enable_managed_scaling
    /\ \E c \in asg.min_capacity..asg.max_capacity :
          run' = [run EXCEPT !.capacity = c, !.scaled_by = "ManagedScaling"]
    /\ UNCHANGED <<stack, context, pc, status, self, template>>

-----------------------------------------------------------------------------
(* Health checks.                                                          *)

\* The first place of character ch in s, 0 when there is none.
FirstIndex(s, ch) ==
    IF \E i \in 1..Len(s) : s[i] = ch
    THEN CHOOSE i \in 1..Len(s) : s[i] = ch /\ \A j \in 1..(i - 1) : s[j] # ch
    ELSE 0

DigitValue(ch) ==
    CASE ch = "0" -> 0 [] ch = "1" -> 1 [] ch = "2" -> 2 [] ch = "3" -> 3
      [] ch = "4" -> 4 [] ch = "5" -> 5 [] ch = "6" -> 6 [] ch = "7" -> 7
      [] ch = "8" -> 8 [] ch = "9" -> 9

RECURSIVE ToNat(_)
ToNat(digits) ==
    IF digits = <<>> THEN 0
    ELSE 10 * ToNat(SubSeq(digits, 1, Len(digits) - 1))
         + DigitValue(digits[Len(digits)])

\* The part of s before the first ch (all of s when there is none) and the
\* part after it.
Before(s, ch) ==
    IF FirstIndex(s, ch) = 0 THEN s ELSE SubSeq(s, 1, FirstIndex(s, ch) - 1)

After(s, ch) ==
    IF FirstIndex(s, ch) = 0 THEN <<>> ELSE SubSeq(s, FirstIndex(s, ch) + 1, Len(s))

\* scheme://host:port/path : the text after "://"
UrlRest(url) == SubSeq(After(url, ":"), 3, Len(After(url, ":")))

UrlPort(url) == ToNat(After(Before(UrlRest(url), "/"), ":"))

UrlPath(url) == <<"/">> \o After(UrlRest(url), "/")

\* The endpoint the container health check's command asks for:
\* ["CMD-SHELL", "curl -f <url> || exit 1"] exits 0 when the url answers
\* and 1 otherwise.
ContainerProbe(c) ==
    LET hc == CHOOSE h \in c.health_check : TRUE
    IN  <<UrlPort(hc.command[4]), UrlPath(hc.command[4])>>

\* The endpoint the load balancer's target group asks for: the default
\* container's first mapped port and the configured path.
TargetGroupProbe(n) ==
    <<CHOOSE p \in DefaultContainer(n).port_mappings : TRUE,
      services[n].health_check_path>>

\* The agent runs a container's health check command.
ContainerHealthCheck ==
    /\ run.deployed
    /\ \E n \in DOMAIN run.tasks : \E c \in ContainersOf(n) :
            /\ c.health_check # {}
            /\ run.tasks[n].status = "RUNNING"
            /\ run.tasks[n].state[c.name] = "RUNNING"
            /\ run' = [run EXCEPT !.tasks[n].container_health =
                         IF ContainerProbe(c) \in run.tasks[n].serving
                         THEN "HEALTHY" ELSE "UNHEALTHY"]
    /\ UNCHANGED <<stack, context, pc, status, self, template>>

\* The load balancer probes a registered task.
TargetGroupHealthCheck ==
    /\ run.deployed
    /\ \E n \in DOMAIN run.tasks :
            /\ services[n].load_balanced
            /\ run.tasks[n].status = "RUNNING"
            /\ run.tasks[n].state[DefaultContainer(n).name] = "RUNNING"
            /\ run' = [run EXCEPT !.tasks[n].target_health =
                         IF TargetGroupProbe(n) \in run.tasks[n].serving
                         THEN "healthy" ELSE "unhealthy"]
    /\ UNCHANGED <<stack, context, pc, status, self, template>>

-----------------------------------------------------------------------------
(* Specifications.                                                         *)

\* Construction of either stack under every context.
Next == Construct

Spec == Init /\ [][Next]_vars

\* The contexts followed into run time: a new VPC (existing_vpc_name is
\* then not read, and absent), or a lookup with existing_vpc_name given or
\* absent; the other values well-formed.
RunContexts ==
    {c \in Contexts :
        /\ c["create_new_vpc"] \in {"True", "False"}
        /\ c["existing_vpc_name"] # Invalid
        /\ c["create_new_vpc"] = "True" => c["existing_vpc_name"] = None
        /\ \A k \in ContextKeys \ {"create_new_vpc", "existing_vpc_name"} :
              c[k] = ValidValue(k)}

InitRun == InitWith(RunContexts)

Operate ==
    \/ Deploy
    \/ StartContainer
    \/ ContainerExits
    \/ ReplaceTask
    \/ TargetTracking
    \/ StepScaling
    \/ ManagedScaling
    \/ ContainerHealthCheck
    \/ TargetGroupHealthCheck

NextRun == Construct \/ Operate

SpecRun == InitRun /\ [][NextRun]_vars

-----------------------------------------------------------------------------
(* Properties.                                                             *)

\* The entries of `declared` of the given kinds.
DeclaredOf(kinds) == {i \in 1..Len(declared) : declared[i].kind \in kinds}

\* C1: once _create_vpc has returned, in either class, a new VPC was
\* created (with cidr = the context's cidr_block and max_azs = its
\* number_of_azs) if and only if the context's create_new_vpc is the text
\* "True"; for every other value, an absent one included, the VPC named by
\* existing_vpc_name was looked up and none was created; and exactly one
\* VPC is bound to self.vpc.
C1_ConditionalVpc ==
    pc > 1 =>
        /\ vpc.declared
        /\ (vpc.origin = "new") <=> (context["create_new_vpc"] = "True")
        /\ vpc.origin = "new" =>
              /\ vpc.cidr = context["cidr_block"]
              /\ vpc.max_azs = context["number_of_azs"]
              /\ Cardinality(DeclaredOf({"VPC"})) = 1
              /\ DeclaredOf({"VPC-lookup"}) = {}
        /\ vpc.origin # "new" =>
              /\ vpc.origin = "lookup"
              /\ vpc.vpc_name = context["existing_vpc_name"]
              /\ DeclaredOf({"VPC"}) = {}
              /\ Cardinality(DeclaredOf({"VPC-lookup"})) = 1
        /\ self["vpc"] = vpc.id
        /\ self["vpc"] \notin {None, Unassigned}

\* C1's case: create_new_vpc is absent and _create_vpc has looked the
\* existing VPC up.
C1_Witness ==
    /\ pc > 1
    /\ context["create_new_vpc"] = None
    /\ vpc.declared
    /\ vpc.origin = "lookup"
    /\ stack = "Megamolbart"

\* C2: whenever synthesis of either stack succeeds, whichever VPC branch
\* was taken, the template holds an ECS cluster whose ClusterSettings
\* include containerInsights = enabled.
C2_ContainerInsights ==
    status = "synthesized" =>
        /\ cluster.declared
        /\ Cardinality(DeclaredOf({"Cluster"})) = 1
        /\ [Name |-> "containerInsights", Value |-> "enabled"] \in ClusterSettings(cluster)

\* C2's case: MegamolbartStack synthesized on the lookup branch.
C2_Witness ==
    /\ status = "synthesized"
    /\ stack = "Megamolbart"
    /\ vpc.origin = "lookup"
    /\ cluster.declared

\* A task's main container has been started.
MainStarted(n) == run.tasks[n].state[DefaultContainer(n).name] # "PENDING"

\* A task's initialization containers: the non-essential ones.
InitContainers(n) == {c \in ContainersOf(n) : ~c.essential}

\* C3 as stated: in both stacks, a task's main container is started only
\* after that task's initialization container has reached COMPLETE.
C3_Original ==
    run.deployed =>
        \A n \in DOMAIN run.tasks :
            MainStarted(n) =>
                /\ InitContainers(n) # {}
                /\ \A c \in InitContainers(n) : run.tasks[n].state[c.name] \in Exited

\* C3, amended: in CheminformaticsStack the main container of the cuchem
\* task and of the megamolbart task is never started while that task's
\* initialization container is pending or running; the task of
\* MegamolbartStack has the one container megamolbart, with no
\* initialization container and no dependency.
C3_InitBeforeMain ==
    run.deployed =>
        /\ stack = "Cheminformatics" =>
              /\ DOMAIN run.tasks = {"cuchem", "megamolbart"}
              /\ run.tasks["cuchem"].state["cuchem"] # "PENDING" =>
                    run.tasks["cuchem"].state["cuchem-init"] \in Exited
              /\ run.tasks["megamolbart"].state["megamolbart"] # "PENDING" =>
                    run.tasks["megamolbart"].state["megamolbart-init"] \in Exited
        /\ stack = "Megamolbart" =>
              /\ DOMAIN run.tasks = {"megamolbart"}
              /\ DOMAIN run.tasks["megamolbart"].state = {"megamolbart"}
              /\ \A c \in ContainersOf("megamolbart") : c.depends_on = {}

\* C3's case: in CheminformaticsStack both main containers run, after one
\* initialization container exited with a non-zero code and the other with
\* zero.
C3_Witness ==
    /\ run.deployed
    /\ stack = "Cheminformatics"
    /\ run.tasks["cuchem"].state["cuchem"] = "RUNNING"
    /\ run.tasks["cuchem"].state["cuchem-init"] = "EXIT_1"
    /\ run.tasks["megamolbart"].state["megamolbart"] = "RUNNING"
    /\ run.tasks["megamolbart"].state["megamolbart-init"] = "EXIT_0"

\* The place of a kind of construct in the order VPC, cluster, GPU capacity,
\* EFS volume, services.
PatternRank(kind) ==
    CASE kind \in {"VPC", "VPC-lookup"} -> 1
      [] kind = "Cluster" -> 2
      [] kind \in {"AutoScalingGroup", "StepScalingPolicy", "Policy", "CapacityProvider"} -> 3
      [] kind = "FileSystem" -> 4
      [] kind \in {"TaskDefinition", "Service"} -> 5

\* The same with the cluster and the GPU capacity exchanged.
GpuFirstRank(kind) ==
    CASE PatternRank(kind) = 2 -> 3
      [] PatternRank(kind) = 3 -> 2
      [] OTHER -> PatternRank(kind)

\* C4 as stated: both stacks declare the VPC, then the cluster, then the
\* GPU capacity, then the EFS volume, then the services.
C4_Original ==
    \A i, j \in 1..Len(declared) :
        i < j => PatternRank(declared[i].kind) <= PatternRank(declared[j].kind)

\* C4, amended: MegamolbartStack declares the VPC, the cluster, the GPU
\* capacity, the EFS volume and its service in this order;
\* CheminformaticsStack declares the VPC, the GPU capacity, the cluster,
\* the EFS volume and its services: there the GPU capacity comes before the
\* cluster.  A synthesized stack has declared all five.
C4_DeclarationOrder ==
    /\ \A i, j \in 1..Len(declared) :
          i < j =>
             IF stack = "Megamolbart"
             THEN PatternRank(declared[i].kind) <= PatternRank(declared[j].kind)
             ELSE GpuFirstRank(declared[i].kind) <= GpuFirstRank(declared[j].kind)
    /\ status = "synthesized" =>
          {PatternRank(declared[i].kind) : i \in 1..Len(declared)} = 1..5

\* C4's case: CheminformaticsStack synthesized, its auto-scaling group
\* declared before its cluster.
C4_Witness ==
    /\ status = "synthesized"
    /\ stack = "Cheminformatics"
    /\ \E i, j \in 1..Len(declared) :
          /\ i < j
          /\ declared[i].kind = "AutoScalingGroup"
          /\ declared[j].kind = "Cluster"

\* The rules as (target, source, first port, last port).
RuleTuples == {<<r.target, r.source, r.from_port, r.to_port>> : r \in rules}

\* C5: the rules the code of a synthesized CheminformaticsStack has added
\* are exactly: EFS accepts TCP 2049 from cuchem and from megamolbart, and
\* megamolbart accepts every TCP port from cuchem; none admits megamolbart
\* to cuchem, and megamolbart accepts from cuchem alone.  MegamolbartStack
\* adds the one rule that EFS accepts TCP 2049 from its service.
C5_IngressRules ==
    /\ \A r \in rules : r.protocol = "tcp"
    /\ status = "synthesized" /\ stack = "Cheminformatics" =>
          /\ RuleTuples =
                {<<"Cheminformatics-EFSFilesystem", "cuchem", 2049, 2049>>,
                 <<"Cheminformatics-EFSFilesystem", "megamolbart", 2049, 2049>>,
                 <<"megamolbart", "cuchem", 0, 65535>>}
          /\ Cardinality(rules) = 3
    /\ status = "synthesized" /\ stack = "Megamolbart" =>
          /\ RuleTuples = {<<"Megamolbart-EFSFilesystem", "megamolbart", 2049, 2049>>}
          /\ Cardinality(rules) = 1
    /\ \A r \in rules :
          /\ ~(r.target = "cuchem" /\ r.source = "megamolbart")
          /\ r.target = "megamolbart" => r.source = "cuchem"

\* C5's case: CheminformaticsStack synthesized with the rule that admits
\* cuchem to megamolbart.
C5_Witness ==
    /\ status = "synthesized"
    /\ stack = "Cheminformatics"
    /\ \E r \in rules : r.target = "megamolbart" /\ r.source = "cuchem"

\* C6: every service of both stacks has exactly one CPU-utilization
\* target-tracking policy with cooldowns of 60 seconds; its task count
\* stays within its bounds through every scale-in and scale-out: 1 to 4
\* (target 50) for cuchem and megamolbart in CheminformaticsStack, 1 to 10
\* (target 30) in MegamolbartStack, whose desired count of 3 is within.
C6_TaskCountScaling ==
    /\ \A n \in DOMAIN services :
          /\ Cardinality(services[n].scaling.policies) = 1
          /\ \A p \in services[n].scaling.policies :
                /\ p.metric = "CPUUtilization"
                /\ p.scale_in_cooldown = 60
                /\ p.scale_out_cooldown = 60
                /\ p.target_utilization_percent =
                      IF stack = "Cheminformatics" THEN 50 ELSE 30
          /\ services[n].scaling.min_capacity = 1
          /\ services[n].scaling.max_capacity =
                IF stack = "Cheminformatics" THEN 4 ELSE 10
          /\ stack = "Megamolbart" =>
                /\ services[n].desired_count = {3}
                /\ \A d \in services[n].desired_count : d \in 1..10
    /\ run.deployed =>
          /\ DOMAIN run.tasks = DOMAIN services
          /\ \A n \in DOMAIN run.tasks :
                run.tasks[n].count \in 1..(IF stack = "Cheminformatics" THEN 4 ELSE 10)

\* C6's case: the service of MegamolbartStack, started with 3 tasks, has
\* been scaled out to its upper bound.
C6_Witness ==
    /\ run.deployed
    /\ stack = "Megamolbart"
    /\ run.tasks["megamolbart"].count = 10

Malformed(k) == ~WellFormed(k, context[k])

\* C8 as stated: with any context value the stack consumes missing or
\* invalid, construction ends in an error and no template is produced.
C8_Original ==
    (\E k \in Consumed(stack) : Malformed(k)) => status # "synthesized"

\* C8, amended: the stack code raises nothing itself and substitutes no
\* default; construction fails only where the method being run hands a
\* missing or invalid value to a framework construct.  A create_new_vpc
\* that is missing or is not "True" is no error: it selects the lookup of
\* the existing VPC.  A value the path taken does not read is not examined,
\* and megamolbart_model_url is only formatted into the init container's
\* command, where an absent value becomes the text "None".
C8_ErrorsOnlyFromFramework ==
    /\ status = "failed" =>
          \/ /\ Steps[pc] = "_create_vpc"
             /\ context["create_new_vpc"] = "True"
             /\ Malformed("cidr_block") \/ Malformed("number_of_azs")
          \/ /\ Steps[pc] = "_create_vpc"
             /\ context["create_new_vpc"] # "True"
             /\ Malformed("existing_vpc_name")
          \/ /\ Steps[pc] = "_create_gpu_capacity"
             /\ Malformed("instance_type") \/ Malformed("ec2_volume_size")
          \/ /\ Steps[pc] = "_create_cuchem_service"
             /\ Malformed("cheminformatics_container")
          \/ /\ Steps[pc] = "_create_megamolbart_service"
             /\ Malformed("megamolbart_container")
    /\ pc > 1 /\ context["create_new_vpc"] # "True" => vpc.origin = "lookup"
    /\ pc > 1 /\ context["create_new_vpc"] = "True" =>
          /\ vpc.cidr = context["cidr_block"]
          /\ vpc.vpc_name = None
    /\ status = "synthesized" /\ stack = "Cheminformatics" =>
          \A c \in ContainersOf("megamolbart") :
              c.name = "megamolbart-init" =>
                  c.command[2] = IF context["megamolbart_model_url"] = None
                                 THEN "None"
                                 ELSE context["megamolbart_model_url"]

\* C8's case: CheminformaticsStack synthesized although create_new_vpc and
\* megamolbart_model_url are absent.
C8_Witness ==
    /\ status = "synthesized"
    /\ stack = "Cheminformatics"
    /\ context["create_new_vpc"] = None
    /\ context["megamolbart_model_url"] = None
    /\ vpc.origin = "lookup"

\* C9: in MegamolbartStack the container health check asks for port 8888,
\* path /api; 8888 is the container's only mapped port; the target group's
\* health check asks for the same port and path; and a task whose /api does
\* not answer is reported healthy by neither.
C9_HealthCheckEndpoint ==
    stack = "Megamolbart" /\ "megamolbart" \in DOMAIN services =>
        /\ DefaultContainer("megamolbart").name = "megamolbart"
        /\ DefaultContainer("megamolbart").health_check # {}
        /\ ContainerProbe(DefaultContainer("megamolbart")) = <<8888, <<"/", "a", "p", "i">>>>
        /\ DefaultContainer("megamolbart").port_mappings = {8888}
        /\ services["megamolbart"].load_balanced
        /\ TargetGroupProbe("megamolbart") = <<8888, <<"/", "a", "p", "i">>>>
        /\ run.deployed /\ <<8888, <<"/", "a", "p", "i">>>> \notin run.tasks["megamolbart"].serving =>
              /\ run.tasks["megamolbart"].container_health # "HEALTHY"
              /\ run.tasks["megamolbart"].target_health # "healthy"

\* C9's case: a task of MegamolbartStack that answers on / but not on /api
\* has been probed by both checks.
C9_Witness ==
    /\ stack = "Megamolbart"
    /\ run.deployed
    /\ run.tasks["megamolbart"].serving = {<<8888, <<"/">>>>}
    /\ run.tasks["megamolbart"].container_health = "UNHEALTHY"
    /\ run.tasks["megamolbart"].target_health = "unhealthy"

\* The values of the environment variable `name` of container c.
Environment(c, name) == {e[2] : e \in {x \in c.environment : x[1] = name}}

\* C10: in a synthesized CheminformaticsStack the address given to the
\* cuchem container in Megamolbart has as host the megamolbart service's
\* cloud-map name joined by a dot with the cluster's default namespace
\* service.local, and as port the megamolbart container's mapped port
\* 50051, which the rule from cuchem to megamolbart covers.
C10_MegamolbartAddress ==
    status = "synthesized" /\ stack = "Cheminformatics" =>
        /\ Cardinality(Environment(DefaultContainer("cuchem"), "Megamolbart")) = 1
        /\ \A addr \in Environment(DefaultContainer("cuchem"), "Megamolbart") :
              /\ Before(addr, ":") =
                    services["megamolbart"].cloud_map_name \o <<".">>
                        \o cluster.default_cloud_map_namespace
              /\ cluster.default_cloud_map_namespace =
                    <<"s","e","r","v","i","c","e",".","l","o","c","a","l">>
              /\ services["megamolbart"].cloud_map_container =
                    DefaultContainer("megamolbart").name
              /\ ToNat(After(addr, ":")) = 50051
              /\ ToNat(After(addr, ":")) \in DefaultContainer("megamolbart").port_mappings
              /\ \E r \in rules :
                    /\ r.target = "megamolbart"
                    /\ r.source = "cuchem"
                    /\ r.from_port <= ToNat(After(addr, ":"))
                    /\ ToNat(After(addr, ":")) <= r.to_port

\* C10's case: CheminformaticsStack synthesized, the cuchem container
\* holding the address.
C10_Witness ==
    /\ status = "synthesized"
    /\ stack = "Cheminformatics"
    /\ Environment(DefaultContainer("cuchem"), "Megamolbart") # {}
    /\ "megamolbart" \in DOMAIN services


-----------------------------------------------------------------------------
(* Attribute reads during construction.                                    *)

\* The attributes of self a _create_* method dereferences (self.x passed to
\* a construct, or self.x.y): in CheminformaticsStack lines 69, 102 and 111,
\* 120, 264/325/346, 144/228/243/247; in MegamolbartStack lines 60,
\* 84/107/137, 144, 168/206/225.
Reads(method) ==
    CASE method = "_create_vpc" -> {}
      [] method = "_create_gpu_capacity" ->
            IF stack = "Cheminformatics" THEN {"vpc"} ELSE {"vpc", "cluster"}
      [] method = "_create_ecs_cluster" ->
            IF stack = "Cheminformatics" THEN {"vpc", "capacity_provider"} ELSE {"vpc"}
      [] method = "_create_efs_volume" -> {"vpc"}
      [] method = "_create_cuchem_service" ->
            {"efs_volume_configuration", "cluster", "efs_filesystem"}
      [] method = "_create_megamolbart_service" ->
            IF stack = "Cheminformatics"
            THEN {"efs_volume_configuration", "cluster", "efs_filesystem", "cuchem"}
            ELSE {"efs_volume_configuration", "cluster", "efs_filesystem"}
      [] OTHER -> {}

\* The attribute holds a resource: it has been assigned, and not None.
IsResource(a) == self[a] \notin {None, Unassigned}

ServiceSteps == {"_create_cuchem_service", "_create_megamolbart_service"}

\* C11: in both stacks, whenever the constructor is about to run a
\* _create_* step, every attribute that step dereferences has already been
\* set to a resource by an earlier step (none is None or unassigned):
\* capacity_provider before CheminformaticsStack._create_ecs_cluster,
\* cuchem before CheminformaticsStack._create_megamolbart_service, cluster
\* (declared) before MegamolbartStack._create_gpu_capacity; and before every
\* service step vpc, cluster and efs_filesystem hold declared resources.
C11_AttributesSetBeforeRead ==
    status = "constructing" /\ pc <= Len(Steps) =>
        /\ \A a \in Reads(Steps[pc]) : IsResource(a)
        /\ (stack = "Cheminformatics" /\ Steps[pc] = "_create_ecs_cluster" =>
                /\ self["capacity_provider"] = asg.capacity_provider
                /\ asg.declared)
        /\ (stack = "Cheminformatics" /\ Steps[pc] = "_create_megamolbart_service" =>
                /\ self["cuchem"] \in DOMAIN services)
        /\ (stack = "Megamolbart" /\ Steps[pc] = "_create_gpu_capacity" =>
                /\ self["cluster"] = cluster.id
                /\ cluster.declared)
        /\ (Steps[pc] \in ServiceSteps =>
                /\ IsResource("vpc") /\ vpc.declared
                /\ IsResource("cluster") /\ cluster.declared
                /\ IsResource("efs_filesystem") /\ efs.declared)

\* C11's case: CheminformaticsStack is about to run
\* _create_megamolbart_service, the step that reads the most attributes,
\* self.cuchem among them, and the cuchem service has been made.
C11_Witness ==
    /\ status = "constructing"
    /\ stack = "Cheminformatics"
    /\ pc <= Len(Steps)
    /\ Steps[pc] = "_create_megamolbart_service"
    /\ "cuchem" \in Reads(Steps[pc])
    /\ self["cuchem"] = "cuchem"
    /\ "cuchem" \in DOMAIN services


-----------------------------------------------------------------------------
(* Initialization containers at run time.                                  *)

\* The services a stack may declare.
ServiceNames == {"cuchem", "megamolbart"}

\* The agent starts the main container of service n's task.
StartMain(n) ==
    /\ n \in DOMAIN run.tasks
    /\ run.tasks[n].state[DefaultContainer(n).name] = "PENDING"
    /\ StartContainer
    /\ run'.tasks[n].state[DefaultContainer(n).name] = "RUNNING"

\* The contexts that name no existing VPC: either a new VPC is made, or the
\* lookup is refused.  What runs after deployment does not depend on where
\* the VPC came from.
NewVpcContexts == {c \in RunContexts : c["existing_vpc_name"] = None}

InitNewVpc == InitWith(NewVpcContexts)

\* Construction and operation of either stack under these contexts.  The ECS agent
\* does not leave a container pending forever once its dependencies are
\* satisfied: the start of each task's main container is weakly fair.
SpecRunFair ==
    /\ InitNewVpc
    /\ [][NextRun]_vars
    /\ \A n \in ServiceNames : WF_vars(StartMain(n))

\* The initialization container of service n's task has exited with `code`.
InitExited(n, code) ==
    /\ run.deployed
    /\ stack = "Cheminformatics"
    /\ n \in DOMAIN run.tasks
    /\ \E c \in InitContainers(n) : run.tasks[n].state[c.name] = code

\* A step in which the initialization container of service n's task exits.
InitExits(n) ==
    /\ stack = "Cheminformatics"
    /\ run.deployed
    /\ n \in DOMAIN run.tasks
    /\ \E c \in InitContainers(n) :
          /\ run.tasks[n].state[c.name] = "RUNNING"
          /\ run'.tasks[n].state[c.name] \in Exited

\* The declared form: the task of service n has one initialization
\* container, non-essential, and its main container depends on exactly that
\* container with condition COMPLETE.
InitDeclaration(n) ==
    /\ Cardinality(InitContainers(n)) = 1
    /\ \A c \in InitContainers(n) :
          DefaultContainer(n).depends_on =
              {[container |-> c.name, condition |-> "COMPLETE"]}

\* C12: in CheminformaticsStack, for the cuchem task and the megamolbart
\* task, the initialization container is non-essential and the main
\* container depends on it with condition COMPLETE, not SUCCESS; a step in
\* which the initialization container exits, with code zero or non-zero,
\* leaves the task running; and once the initialization container has
\* exited, with either code, the main container is eventually started.
C12_InitExitStartsMain ==
    /\ [](status = "synthesized" /\ stack = "Cheminformatics" =>
            \A n \in ServiceNames : n \in DOMAIN services /\ InitDeclaration(n))
    /\ [][\A n \in ServiceNames :
            InitExits(n) => /\ run'.tasks[n].status = "RUNNING"
                            /\ ~MainStarted(n)]_vars
    /\ \A n \in ServiceNames : \A code \in Exited :
            InitExited(n, code) ~> (InitExited(n, code) /\ MainStarted(n))

\* C12's case: in CheminformaticsStack the megamolbart task is running its
\* main container after its initialization container failed, and the
\* cuchem task is still running with its initialization container exited
\* and its main container about to be started.
C12_Witness ==
    /\ run.deployed
    /\ stack = "Cheminformatics"
    /\ run.tasks["megamolbart"].status = "RUNNING"
    /\ run.tasks["megamolbart"].state["megamolbart-init"] = "EXIT_1"
    /\ run.tasks["megamolbart"].state["megamolbart"] = "RUNNING"
    /\ run.tasks["cuchem"].status = "RUNNING"
    /\ run.tasks["cuchem"].state["cuchem-init"] = "EXIT_1"
    /\ run.tasks["cuchem"].state["cuchem"] = "PENDING"

====
